---- MODULE Spec2Model ----
(***************************************************************************)
(* Verifiably-encrypted BLS signatures (package vess).                     *)
(*                                                                         *)
(* The groups G1, G2 and GT of the pairing curve are cyclic of the same    *)
(* prime order, so a point is represented by its discrete logarithm with   *)
(* respect to the canonical generator of its group: the generator is 1,    *)
(* the point at infinity (the zero value of gnark's affine types) is 0,    *)
(* point addition is addition modulo the order, scalar multiplication is   *)
(* multiplication modulo the order and the pairing of a*G1gen and b*G2gen  *)
(* is the GT element with exponent a*b.  A small prime stands in for the   *)
(* order of the scalar field.                                              *)
(***************************************************************************)
EXTENDS Integers, Sequences, FiniteSets

VARIABLES g1, g2, blsReady, vess, pc, variant, t, panicMsg, tampers

vars == <<g1, g2, blsReady, vess, pc, variant, t, panicMsg, tampers>>

(***************************************************************************)
(* Bounds of the model                                                     *)
(***************************************************************************)
\* the secure random source yields the scalars 0..MaxRand
MaxRand == 3
\* messages 1..MaxMsg; message 1 is the literal "Hello, World"
MaxMsg == 2
\* thresholds and share counts up to MaxShares in the sharing specification
MaxShares == 3
\* how many inputs of the verification the environment may replace
MaxTamper == 2

(***************************************************************************)
(* The curve: scalar field, groups, pairing                                *)
(***************************************************************************)
\* order of the scalar field fr and of G1, G2, GT (curve bls.BLS12_381)
Order == 11
\* the Montgomery constant of fr.Element: 2^(limb bits) modulo the order
MontR == 5
\* exponent of the canonical generators returned by gnark.Generators()
G1Gen == 1
G2Gen == 1

Fr == 0 .. (Order - 1)
Points == 0 .. (Order - 1)
\* the value of an object of the herumi library written while the library
\* was not initialised: indeterminate, equal to no point and no scalar
Indet == Order

Rand == 0 .. MaxRand
Msgs == 1 .. MaxMsg

IsIndet(a) == a = Indet

\* gnark G1Affine/G2Affine.ScalarMultiplication(p, s)
ScalarMultiplication(p, s) == (p * s) % Order
\* gnark G2Affine.Add
G2Add(a, b) == (a + b) % Order
\* gnark G2Affine.Sub
G2SubMut(a, b) == (a + b) % Order
G2Sub(a, b) == (a + Order - b) % Order
\* gnark.Pair on one (G1, G2) pair: the exponent of the GT element
PairMut(p, q) == (p + q) % Order
Pair(p, q) == (p * q) % Order
\* GT.Mul: the product of two GT elements adds their exponents
GTMulMut(a, b) == (a * b) % Order
GTMul(a, b) == (a + b) % Order

\* fr.Element.SetRandom: random bytes reduced modulo the order
SetRandom(rnd) == rnd % Order
\* fr.Element.ToBigInt (gnark-crypto v0.7.0): the limbs as they are stored,
\* that is the element in Montgomery form
ToBigInt(e) == (e * MontR) % Order
\* fr.Element.ToBigIntRegular: the element converted out of Montgomery form
ToBigIntRegular(e) == e

(***************************************************************************)
(* Encodings exchanged between the two libraries                           *)
(***************************************************************************)
\* big.Int.String(): decimal text
BigIntString(x) == [fmt |-> "dec", v |-> x]
\* gnark G2Affine.Marshal(): the uncompressed encoding
G2Marshal(p) == [fmt |-> "g2raw", v |-> p]
\* gnark G2Affine.Unmarshal(): SetBytes accepts the compressed and the
\* uncompressed encoding; on an error (ignored by the callers) the receiver
\* keeps its old value
G2Unmarshal(old, b) == IF b.fmt \in {"g2raw", "g2comp"} /\ b.v \in Points THEN b.v ELSE old
\* fr.Element.Marshal(): big-endian bytes of the regular form
FrMarshal(e) == [fmt |-> "frBE", v |-> e]

\* herumi bls.SecretKey.SetDecString
SetDecString(ready, s) == IF ~ready THEN Indet ELSE IF s.fmt = "dec" THEN s.v % Order ELSE 0
\* herumi bls.HashAndMapToSignature: hash of the message bytes to G2
HashAndMapToSignature(ready, m) == IF ~ready THEN Indet ELSE (m * m + 2) % Order
\* herumi G2 scalar multiplication (bls.G2Mul, and the one inside Sign)
G2Mul(p, s) == IF IsIndet(p) \/ IsIndet(s) THEN Indet ELSE (p * s) % Order
\* herumi bls.SecretKey.Sign: secret times the hash of the message
BlsSign(ready, sk, m) == G2Mul(HashAndMapToSignature(ready, m), sk)
\* herumi Sign/G2.SerializeUncompressed
SerializeUncompressed(p) == IF IsIndet(p) THEN [fmt |-> "indet", v |-> Indet] ELSE [fmt |-> "g2raw", v |-> p]
\* herumi G2.Serialize: the compressed encoding
Serialize(p) == IF IsIndet(p) THEN [fmt |-> "indet", v |-> Indet] ELSE [fmt |-> "g2comp", v |-> p]
\* herumi G2.DeserializeUncompressed into a fresh (zero) object
DeserializeUncompressed(ready, b) == IF ~ready THEN Indet ELSE IF b.fmt = "g2raw" THEN b.v ELSE 0
\* herumi G2.Deserialize into a fresh (zero) object
Deserialize(ready, b) == IF ~ready THEN Indet ELSE IF b.fmt = "g2comp" THEN b.v ELSE 0
\* herumi Fr.Deserialize: big-endian in the ETH serialization mode
FrDeserialize(ready, b) == IF ~ready THEN Indet ELSE IF b.fmt = "frBE" THEN b.v % Order ELSE 0
\* herumi Fr.SetInt64
SetInt64(ready, i) == IF ~ready THEN Indet ELSE i % Order
\* herumi Fr.SetByCSPRNG
SetByCSPRNG(ready, rnd) == IF ~ready THEN Indet ELSE rnd % Order
\* herumi bls.G2Sub
BlsG2Sub(a, b) == IF IsIndet(a) \/ IsIndet(b) THEN Indet ELSE (a + Order - b) % Order

(***************************************************************************)
(* Polynomials over the scalar field (herumi / mcl)                        *)
(***************************************************************************)
\* a / b in the scalar field, b non-zero
FrInv(b) == CHOOSE c \in 1 .. (Order - 1) : (b * c) % Order = 1
FrDiv(a, b) == (a * FrInv(b)) % Order
FrSub(a, b) == (a + Order - b) % Order

HasIndet(s) == \E i \in 1 .. Len(s) : IsIndet(s[i])

\* Horner's rule from the highest coefficient down; cVec[1] is the free one
RECURSIVE Horner(_, _, _)
Horner(cVec, x, i) ==
  IF i = Len(cVec) THEN cVec[i]
  ELSE (Horner(cVec, x, i + 1) * x + cVec[i]) % Order

\* bls.FrEvaluatePolynomial(&y, cVec, &x): y = sum cVec[i] * x^i; with no
\* coefficient it returns an error and leaves y at its zero value
FrEvaluatePolynomial(cVec, x) ==
  IF Len(cVec) = 0 THEN 0
  ELSE IF HasIndet(cVec) \/ IsIndet(x) THEN Indet
  ELSE Horner(cVec, x, 1)

RECURSIVE ProdAll(_, _)
ProdAll(S, i) == IF i > Len(S) THEN 1 ELSE (S[i] * ProdAll(S, i + 1)) % Order

\* b = S[i] * prod_{j # i} (S[j] - S[i])
RECURSIVE Denominator(_, _, _)
Denominator(S, i, j) ==
  IF j > Len(S) THEN S[i]
  ELSE IF j = i THEN Denominator(S, i, j + 1)
  ELSE (FrSub(S[j], S[i]) * Denominator(S, i, j + 1)) % Order

\* the Lagrange basis coefficient at 0: prod_{j # i} S[j] / (S[j] - S[i]) = a / b
LagrangeCoeffMut(S, i) == FrDiv(ProdAll(S, 1), (Denominator(S, i, 1) * S[i]) % Order)
LagrangeCoeff(S, i) == FrDiv(ProdAll(S, 1), Denominator(S, i, 1))

\* mcl LagrangeInterpolation fails for no point, for a zero x (two or more
\* points) and for two equal x; the Go wrapper also for unequal lengths
LagrangeFails(S, vec) ==
  \/ Len(S) = 0
  \/ Len(S) # Len(vec)
  \/ /\ Len(S) > 1
     /\ \/ ProdAll(S, 1) = 0
        \/ \E i, j \in 1 .. Len(S) : i # j /\ S[i] = S[j]

RECURSIVE LagrangeSum(_, _, _)
LagrangeSum(S, vec, i) ==
  IF i > Len(S) THEN 0
  ELSE (vec[i] * LagrangeCoeff(S, i) + LagrangeSum(S, vec, i + 1)) % Order

\* bls.G2LagrangeInterpolation(&out, xs, res) when it succeeds: f(0) in the
\* exponent; one point alone is returned as it is
G2LagrangeInterpolation(S, vec) ==
  IF HasIndet(S) \/ HasIndet(vec) THEN Indet
  ELSE IF Len(S) = 1 THEN vec[1]
  ELSE LagrangeSum(S, vec, 1)

(***************************************************************************)
(* The stack frame of Test and the effect of each of its blocks            *)
(***************************************************************************)
\* the threshold and the number of shares set by Test
MinShares == 3
TotalShares == 10

\* the first n share indices, the quorum Test uses
FirstN(n) == [i \in 1 .. n |-> i]

\* all locals at their zero value
ZeroFrame ==
  [aSKey |-> 0, x |-> 0, aPKey |-> 0,
   adjSKey |-> 0, adjSKeyInt |-> 0, adjPKeyG1 |-> 0, adjPKeyG2 |-> 0,
   msg |-> 0, sigma |-> 0,
   r |-> 0, mu |-> 0, sigma_2 |-> 0, omega |-> 0, origOmega |-> 0, origMu |-> 0,
   pair0 |-> 0, h |-> 0, pair1 |-> 0, pair2 |-> 0,
   minShares |-> 0, totalShares |-> 0, quorum |-> <<>>,
   adjsk |-> 0, adjKeyPoly |-> <<>>, shares |-> <<>>,
   mub |-> 0, res |-> <<>>, xs |-> <<>>, omegab |-> 0]

\* Alice's keys: a random secret, its big.Int x, the public key x * g1
KeysAliceF(f, gen1, rnd) ==
  LET e == SetRandom(rnd)
      xx == ToBigInt(e)
  IN [f EXCEPT !.aSKey = e, !.x = xx, !.aPKey = ScalarMultiplication(gen1, xx)]

\* the adjudicator's keys: one big.Int for the public keys on G1 and on G2;
\* vess/vess.go takes it with ToBigInt, the later file with ToBigIntRegular
KeysAdjF(f, gen1, gen2, rnd, var) ==
  LET e == SetRandom(rnd)
      k == IF var = "vess" THEN ToBigInt(e) ELSE ToBigIntRegular(e)
  IN [f EXCEPT !.adjSKey = e, !.adjSKeyInt = k,
               !.adjPKeyG1 = ScalarMultiplication(gen1, k),
               !.adjPKeyG2 = ScalarMultiplication(gen2, k)]

\* the plain BLS signature made by the herumi library and parsed by gnark;
\* parsing the bytes of an indeterminate signature leaves any point, junk
SignF(f, ready, m, junk) ==
  LET ask == SetDecString(ready, BigIntString(f.x))
      asig == BlsSign(ready, ask, m)
  IN [f EXCEPT !.msg = m,
               !.sigma = IF IsIndet(asig) THEN junk
                         ELSE G2Unmarshal(0, SerializeUncompressed(asig))]

\* encryption under the adjudicator's G2 key with a random r, and (later
\* file only) the copies of omega and mu kept as herumi points
EncryptF(f, gen2, ready, rnd, var) ==
  LET rr == ToBigInt(SetRandom(rnd))
      m == ScalarMultiplication(gen2, rr)
      s2 == ScalarMultiplication(f.adjPKeyG2, rr)
      o == G2Add(f.sigma, s2)
  IN [f EXCEPT !.r = rr, !.mu = m, !.sigma_2 = s2, !.omega = o,
               !.origOmega = IF var = "vess" THEN 0
                             ELSE DeserializeUncompressed(ready, G2Marshal(o)),
               !.origMu = IF var = "vess" THEN 0
                          ELSE DeserializeUncompressed(ready, G2Marshal(m))]

\* the three pairings of the verification and the product of the last two
VerifyF(f, gen1, ready, junk) ==
  LET h0 == HashAndMapToSignature(ready, f.msg)
      hh == IF IsIndet(h0) THEN junk ELSE G2Unmarshal(0, SerializeUncompressed(h0))
      p1 == Pair(f.aPKey, hh)
      p2 == Pair(f.adjPKeyG1, f.mu)
  IN [f EXCEPT !.pair0 = Pair(gen1, f.omega), !.h = hh, !.pair2 = p2,
               !.pair1 = GTMul(p1, p2)]

\* adjudication in place: mu becomes mu * adjSKeyInt, omega becomes omega - mu
AdjudicateFMut(f) ==
  LET m == ScalarMultiplication(f.mu, f.adjSKeyInt)
  IN [f EXCEPT !.mu = m, !.omega = G2Sub(f.omega, m),
               !.origMu = m, !.origOmega = G2Sub(f.omega, m)]
AdjudicateF(f) ==
  LET m == ScalarMultiplication(f.mu, f.adjSKeyInt)
  IN [f EXCEPT !.mu = m, !.omega = G2Sub(f.omega, m)]

\* the sharing parameters; Test takes the first minShares shares
ParamsF(f, n, m, q) == [f EXCEPT !.minShares = n, !.totalShares = m, !.quorum = q]

\* make([]T, n) panics for a negative length
MakePanics(n) == n < 0

\* the polynomial: free coefficient the adjudicator secret, the others random
PolyF(f, ready, coeffs) ==
  LET sk == FrDeserialize(ready, FrMarshal(f.adjSKey))
  IN [f EXCEPT !.adjsk = sk,
               !.adjKeyPoly = [i \in 1 .. f.minShares |->
                                 IF i = 1 THEN sk ELSE SetByCSPRNG(ready, coeffs[i - 1])]]

\* the shares: the polynomial at x = 1 .. totalShares
SharesF(f, ready) ==
  [f EXCEPT !.shares = [i \in 1 .. f.totalShares |->
                          FrEvaluatePolynomial(f.adjKeyPoly, SetInt64(ready, i))]]

\* a partial decryption reads a share that does not exist
PartialPanics(f) == \E k \in 1 .. Len(f.quorum) : f.quorum[k] > Len(f.shares)

\* the partial decryptions mu * share of the quorum and their x coordinates
PartialF(f, ready) ==
  LET b == Deserialize(ready, Serialize(f.origMu))
  IN [f EXCEPT !.mub = b,
               !.res = [k \in 1 .. Len(f.quorum) |-> G2Mul(b, f.shares[f.quorum[k]])],
               !.xs = [k \in 1 .. Len(f.quorum) |-> SetInt64(ready, f.quorum[k])]]

\* Lagrange interpolation of the partials at 0
InterpF(f) == [f EXCEPT !.mub = G2LagrangeInterpolation(f.xs, f.res)]

\* the final subtraction from the copy of the encrypted omega
FinalF(f, ready) ==
  LET o == DeserializeUncompressed(ready, SerializeUncompressed(f.origOmega))
  IN [f EXCEPT !.omegab = BlsG2Sub(o, f.mub)]

(***************************************************************************)
(* The program: Init, New and the steps of Test                            *)
(***************************************************************************)
\* what the library calls of a block can do: with the herumi library not
\* initialised a call may also fault
Outcomes(ready) == IF ready THEN {"ok"} ELSE {"ok", "fault"}
\* what gnark parses out of bytes the herumi library wrote
Junk(ready) == IF ready THEN {0} ELSE Points

Panic(msg) ==
  /\ pc' = "dead"
  /\ panicMsg' = msg

\* the package before Init or New: zero-valued generators
Init ==
  /\ g1 = 0
  /\ g2 = 0
  /\ blsReady = FALSE
  /\ vess = <<>>
  /\ pc = "idle"
  /\ variant = "none"
  /\ t = ZeroFrame
  /\ panicMsg = ""
  /\ tampers = {}

\* Init(): sets up the herumi library and fetches the generators; panics
\* when the library reports an error
InitCall ==
  /\ pc = "idle"
  /\ \E blsErr \in BOOLEAN :
       IF blsErr
       THEN /\ Panic("bls init")
            /\ UNCHANGED <<g1, g2, blsReady>>
       ELSE /\ blsReady' = TRUE
            /\ g1' = G1Gen
            /\ g2' = G2Gen
            /\ UNCHANGED <<pc, panicMsg>>
  /\ UNCHANGED <<vess, variant, t, tampers>>

\* New(): as Init, but an error is returned with a nil object and the
\* package generators are left as they were
New ==
  /\ pc = "idle"
  /\ \E blsErr \in BOOLEAN :
       IF blsErr
       THEN /\ vess' = <<>>
            /\ UNCHANGED <<g1, g2, blsReady>>
       ELSE /\ blsReady' = TRUE
            /\ g1' = G1Gen
            /\ g2' = G2Gen
            /\ vess' = <<G1Gen, G2Gen>>
  /\ UNCHANGED <<pc, variant, t, panicMsg, tampers>>

\* a call of Test, of either file
TestCall ==
  /\ pc = "idle"
  /\ variant' \in {"vess", "later"}
  /\ t' = ZeroFrame
  /\ pc' = "keysAlice"
  /\ UNCHANGED <<g1, g2, blsReady, vess, panicMsg, tampers>>

TestKeysAlice ==
  /\ pc = "keysAlice"
  /\ \E rnd \in Rand : t' = KeysAliceF(t, g1, rnd)
  /\ pc' = "keysAdj"
  /\ UNCHANGED <<g1, g2, blsReady, vess, variant, panicMsg, tampers>>

TestKeysAdj ==
  /\ pc = "keysAdj"
  /\ \E rnd \in Rand : t' = KeysAdjF(t, g1, g2, rnd, variant)
  /\ pc' = "sign"
  /\ UNCHANGED <<g1, g2, blsReady, vess, variant, panicMsg, tampers>>

TestSign ==
  /\ pc = "sign"
  /\ \E out \in Outcomes(blsReady), m \in Msgs, junk \in Junk(blsReady) :
       IF out = "fault"
       THEN /\ Panic("fault in the uninitialised library")
            /\ t' = t
       ELSE /\ t' = SignF(t, blsReady, m, junk)
            /\ pc' = "encrypt"
            /\ panicMsg' = panicMsg
  /\ UNCHANGED <<g1, g2, blsReady, vess, variant, tampers>>

TestEncrypt ==
  /\ pc = "encrypt"
  /\ \E rnd \in Rand : t' = EncryptF(t, g2, blsReady, rnd, variant)
  /\ pc' = "verify"
  /\ UNCHANGED <<g1, g2, blsReady, vess, variant, panicMsg, tampers>>

\* the verification block: panics unless pair0 = pair1
TestVerify ==
  /\ pc = "verify"
  /\ \E junk \in Junk(blsReady) : t' = VerifyF(t, g1, blsReady, junk)
  /\ IF t'.pair0 # t'.pair1
     THEN Panic("Invalid signature")
     ELSE /\ pc' = "adjudicate"
          /\ panicMsg' = panicMsg
  /\ UNCHANGED <<g1, g2, blsReady, vess, variant, tampers>>

\* the adjudication block: panics unless the signature is recovered; the
\* Test of vess/vess.go ends here
TestAdjudicate ==
  /\ pc = "adjudicate"
  /\ t' = AdjudicateF(t)
  /\ IF t'.sigma # t'.omega
     THEN Panic("Recovered signature does not match original signature")
     ELSE /\ pc' = IF variant = "vess" THEN "return" ELSE "params"
          /\ panicMsg' = panicMsg
  /\ UNCHANGED <<g1, g2, blsReady, vess, variant, tampers>>

TestParams ==
  /\ pc = "params"
  /\ t' = ParamsF(t, MinShares, TotalShares, FirstN(MinShares))
  /\ pc' = "split"
  /\ UNCHANGED <<g1, g2, blsReady, vess, variant, panicMsg, tampers>>

\* the polynomial and the shares
TestSplit ==
  /\ pc = "split"
  /\ IF MakePanics(t.minShares) \/ MakePanics(t.totalShares)
     THEN /\ Panic("makeslice: len out of range")
          /\ t' = t
     ELSE IF t.minShares = 0
     THEN /\ Panic("index out of range")
          /\ t' = t
     ELSE /\ \E coeffs \in [1 .. (t.minShares - 1) -> Rand] :
               t' = SharesF(PolyF(t, blsReady, coeffs), blsReady)
          /\ pc' = "partial"
          /\ panicMsg' = panicMsg
  /\ UNCHANGED <<g1, g2, blsReady, vess, variant, tampers>>

\* the partial decryptions of the quorum
TestPartial ==
  /\ pc = "partial"
  /\ IF PartialPanics(t)
     THEN /\ Panic("index out of range")
          /\ t' = t
     ELSE /\ t' = PartialF(t, blsReady)
          /\ pc' = "interp"
          /\ panicMsg' = panicMsg
  /\ UNCHANGED <<g1, g2, blsReady, vess, variant, tampers>>

\* the interpolation: panics on the error of the library
TestInterp ==
  /\ pc = "interp"
  /\ \E out \in Outcomes(blsReady) :
       IF out = "fault" \/ (blsReady /\ LagrangeFails(t.xs, t.res))
       THEN /\ Panic("G2LagrangeInterpolation")
            /\ t' = t
       ELSE /\ t' = InterpF(t)
            /\ pc' = "final"
            /\ panicMsg' = panicMsg
  /\ UNCHANGED <<g1, g2, blsReady, vess, variant, tampers>>

TestFinal ==
  /\ pc = "final"
  /\ t' = FinalF(t, blsReady)
  /\ pc' = "return"
  /\ UNCHANGED <<g1, g2, blsReady, vess, variant, panicMsg, tampers>>

\* Test returns and its frame is gone
TestReturn ==
  /\ pc = "return"
  /\ pc' = "idle"
  /\ t' = ZeroFrame
  /\ variant' = "none"
  /\ UNCHANGED <<g1, g2, blsReady, vess, panicMsg, tampers>>

Next ==
  \/ InitCall
  \/ New
  \/ TestCall
  \/ TestKeysAlice
  \/ TestKeysAdj
  \/ TestSign
  \/ TestEncrypt
  \/ TestVerify
  \/ TestAdjudicate
  \/ TestParams
  \/ TestSplit
  \/ TestPartial
  \/ TestInterp
  \/ TestFinal
  \/ TestReturn

Spec == Init /\ [][Next]_vars

(***************************************************************************)
(* The verification block on replaced inputs                               *)
(***************************************************************************)
\* the inputs of the verification that can be replaced before it runs
VerifyInputs == {"omega", "mu", "aPKey", "adjPKeyG1"}

\* the frame of Test when it reaches the verification, library initialised
EncryptedFrame(rndAlice, rndAdj, m, rndR, var) ==
  EncryptF(SignF(KeysAdjF(KeysAliceF(ZeroFrame, G1Gen, rndAlice),
                          G1Gen, G2Gen, rndAdj, var),
                 TRUE, m, 0),
           G2Gen, TRUE, rndR, var)

InitVerify ==
  /\ g1 = G1Gen
  /\ g2 = G2Gen
  /\ blsReady = TRUE
  /\ vess = <<G1Gen, G2Gen>>
  /\ pc = "verify"
  /\ variant = "later"
  /\ \E rndAdj \in Rand, m \in Msgs, rndR \in Rand :
       t = EncryptedFrame(MaxRand, rndAdj, m, rndR, "later")
  /\ panicMsg = ""
  /\ tampers = {}

\* one input of the verification is replaced by a different point
Tamper ==
  /\ pc = "verify"
  /\ Cardinality(tampers) < MaxTamper
  /\ \E field \in VerifyInputs \ tampers, v \in Points :
       /\ v # t[field]
       /\ t' = [t EXCEPT ![field] = v]
       /\ tampers' = tampers \cup {field}
  /\ UNCHANGED <<g1, g2, blsReady, vess, pc, variant, panicMsg>>

NextVerify ==
  \/ Tamper
  \/ TestVerify

SpecVerify == InitVerify /\ [][NextVerify]_vars

(***************************************************************************)
(* The threshold blocks on any threshold, share count and quorum           *)
(***************************************************************************)
\* strictly increasing sequences of k indices out of 1..m
IncSeqs(k, m) == {q \in [1 .. k -> 1 .. m] : \A i \in 1 .. (k - 1) : q[i] < q[i + 1]}

\* thresholds, share counts and quorums: invalid ones, every set of share
\* indices, the first n that Test takes, and the 3-of-10 sharing of Test
\* with every quorum of 3 and of 2
Quorums(n, m) == UNION {IncSeqs(k, m) : k \in 0 .. m} \cup {FirstN(n)}

ShareParams ==
  UNION {UNION {{<<n, m, q>> : q \in Quorums(n, m)} : m \in 0 .. MaxShares} :
         n \in (0 - 1) .. MaxShares}

TestShareParams ==
  ShareParams \cup
  {<<MinShares, TotalShares, q>> : q \in IncSeqs(MinShares, TotalShares)
                                        \cup IncSeqs(MinShares - 1, TotalShares)}

\* the frame of Test after the single-party adjudication
AdjudicatedFrame(rndAlice, rndAdj, m, rndR) ==
  AdjudicateF(VerifyF(EncryptedFrame(rndAlice, rndAdj, m, rndR, "later"), G1Gen, TRUE, 0))

InitShare ==
  /\ g1 = G1Gen
  /\ g2 = G2Gen
  /\ blsReady = TRUE
  /\ vess = <<G1Gen, G2Gen>>
  /\ pc = "split"
  /\ variant = "later"
  /\ \E rndAdj \in Rand, rndR \in Rand, p \in TestShareParams :
       t = ParamsF(AdjudicatedFrame(MaxRand, rndAdj, 1, rndR), p[1], p[2], p[3])
  /\ panicMsg = ""
  /\ tampers = {}

NextShare ==
  \/ TestSplit
  \/ TestPartial
  \/ TestInterp
  \/ TestFinal

SpecShare == InitShare /\ [][NextShare]_vars

(***************************************************************************)
(* Properties                                                              *)
(***************************************************************************)
\* the hash of a message to G2, library initialised
HashToG2(m) == HashAndMapToSignature(TRUE, m)

\* the discrete logarithm of a G1 point: the secret of a public key
DLog1(p) == CHOOSE s \in Fr : ScalarMultiplication(G1Gen, s) = p

\* the verification block has run: it passed, or it panicked
Verified == pc = "adjudicate" \/ (pc = "dead" /\ panicMsg = "Invalid signature")

\* the adjudication block has run: it passed, or it panicked
Adjudicated ==
  \/ pc \in {"params", "split", "partial", "interp", "final", "return"}
  \/ pc = "dead" /\ panicMsg \in {"Recovered signature does not match original signature",
                                  "makeslice: len out of range", "index out of range",
                                  "G2LagrangeInterpolation"}

\* keys, signature and encryption are the honest ones of the scheme
HonestVES(f) ==
  /\ f.aPKey = ScalarMultiplication(G1Gen, f.x)
  /\ f.adjPKeyG1 = ScalarMultiplication(G1Gen, f.adjSKeyInt)
  /\ f.adjPKeyG2 = ScalarMultiplication(G2Gen, f.adjSKeyInt)
  /\ f.sigma = ScalarMultiplication(HashToG2(f.msg), f.x)
  /\ f.mu = ScalarMultiplication(G2Gen, f.r)
  /\ f.omega = G2Add(f.sigma, ScalarMultiplication(f.adjPKeyG2, f.r))

\* C1: once the verification block of Test has run on honestly made keys,
\* signature and encryption, it has passed (no "Invalid signature" panic)
\* and e(G1gen, omega) = e(signerPublic, H(M)) * e(adjudicatorPublicG1, mu).
C1_VerifyComplete ==
  (Verified /\ HonestVES(t)) =>
    /\ pc = "adjudicate"
    /\ t.pair0 = t.pair1
    /\ Pair(G1Gen, t.omega) =
         GTMul(Pair(t.aPKey, HashToG2(t.msg)), Pair(t.adjPKeyG1, t.mu))

C1_Witness ==
  /\ pc = "adjudicate"
  /\ blsReady
  /\ HonestVES(t)
  /\ t.x # 0 /\ t.adjSKeyInt # 0 /\ t.r # 0

\* C2: once the adjudication block of Test has run, it has passed (no panic)
\* and omega - adjSKeyInt * mu, left in omega, equals the signature sigma
\* exactly, whatever r was; with the library initialised sigma is x * H(M).
C2_AdjudicateInverts ==
  Adjudicated =>
    /\ panicMsg # "Recovered signature does not match original signature"
    /\ t.omega = t.sigma
    /\ blsReady => t.omega = ScalarMultiplication(HashToG2(t.msg), t.x)

C2_Witness ==
  /\ pc = "params"
  /\ blsReady
  /\ t.omega = t.sigma
  /\ t.sigma # 0 /\ t.adjSKeyInt # 0 /\ t.r # 0
  /\ t.origOmega # t.sigma

\* the quorum holds exactly minShares distinct indices of existing shares
ValidQuorum(f) ==
  /\ 1 <= f.minShares
  /\ f.minShares <= f.totalShares
  /\ Len(f.quorum) = f.minShares
  /\ \A i \in 1 .. Len(f.quorum) : f.quorum[i] \in 1 .. f.totalShares
  /\ \A i, j \in 1 .. Len(f.quorum) : i # j => f.quorum[i] # f.quorum[j]

\* C3: for 1 <= n <= m, any coefficients and any quorum of n distinct
\* share indices out of 1..m, nothing panics, the interpolation of the
\* partials at 0 is mu * adjudicatorSecret, and omega minus it is the
\* signature the single-party adjudication recovered.
C3_ThresholdAgrees ==
  ValidQuorum(t) =>
    /\ pc # "dead"
    /\ pc \in {"final", "return"} => t.mub = G2Mul(t.origMu, t.adjSKey)
    /\ pc = "return" => t.omegab = t.omega

C3_Witness ==
  /\ pc = "return"
  /\ ValidQuorum(t)
  /\ t.minShares >= 2
  /\ t.quorum # FirstN(t.minShares)
  /\ t.adjKeyPoly[2] # 0
  /\ t.adjSKey # 0
  /\ t.origMu # 0
  /\ t.omegab = t.sigma

\* C4: after the verification block ran on any omega, mu, signer key and
\* adjudicator key, it passed if and only if omega - a * mu = s * H(M) for
\* the secrets s and a of the two public keys.
C4_VerifySound ==
  Verified =>
    ((pc = "adjudicate" /\ t.pair0 = t.pair1) <=>
       G2Sub(t.omega, ScalarMultiplication(t.mu, DLog1(t.adjPKeyG1))) =
         ScalarMultiplication(HashToG2(t.msg), DLog1(t.aPKey)))

C4_Witness ==
  /\ pc = "adjudicate"
  /\ tampers = {"omega", "mu"}
  /\ t.mu # 0

\* C5 (as claimed): after exactly one input of an honest verification was
\* replaced by a different point, the verification neither passes nor panics.
C5_TamperGivesFalse ==
  (Verified /\ Cardinality(tampers) = 1) =>
    /\ pc # "adjudicate"
    /\ panicMsg # "Invalid signature"

\* the quorum holds fewer than minShares distinct indices
Insufficient(f) ==
  Cardinality({f.quorum[i] : i \in 1 .. Len(f.quorum)}) < f.minShares

\* C6 (as claimed): with fewer than n distinct indices the reconstruction
\* never yields a point different from mu * adjudicatorSecret (it yields no
\* point at all: it ends in InsufficientSharesError).
C6_FailsClosed ==
  (1 <= t.minShares /\ t.minShares <= t.totalShares /\ Insufficient(t)) =>
    ~(pc \in {"final", "return"} /\ t.mub # G2Mul(t.origMu, t.adjSKey))

\* C7 (as claimed): a threshold and share count violating 1 <= n <= m are
\* rejected before any share exists and without an out-of-range access.
C7_SplitValidates ==
  ~(1 <= t.minShares /\ t.minShares <= t.totalShares) =>
    /\ pc \in {"split", "dead"}
    /\ pc = "dead" => panicMsg = "InvalidThresholdError"
    /\ t.shares = <<>>

\* C8 (as claimed): after a key generation that read the canonical
\* generators both secrets are non-zero and each public key is its secret
\* times the generator.
C8_NonZeroSecrets ==
  (pc = "sign" /\ g1 = G1Gen /\ g2 = G2Gen) =>
    /\ t.aSKey # 0 /\ t.x # 0
    /\ t.adjSKey # 0 /\ t.adjSKeyInt # 0
    /\ t.aPKey = ScalarMultiplication(G1Gen, t.x)
    /\ t.adjPKeyG1 = ScalarMultiplication(G1Gen, t.adjSKeyInt)
    /\ t.adjPKeyG2 = ScalarMultiplication(G2Gen, t.adjSKeyInt)

\* the steps of Test that read the package generators g1, g2
ReadsGenerators == pc \in {"keysAlice", "keysAdj", "encrypt", "verify"}

\* C9 (as claimed): whenever Test reads g1 and g2 they are the canonical
\* generators, and once they are set no later step changes them.
C9_InitBeforeUse ==
  /\ [](ReadsGenerators => (g1 = G1Gen /\ g2 = G2Gen))
  /\ [][(g1 = G1Gen /\ g2 = G2Gen) => (g1' = g1 /\ g2' = g2)]_vars

\* C10: in a run of the later Test made with the library initialised, from
\* the encryption on the copies origOmega and origMu stay the encrypted
\* signature (sigma + r * adjPKeyG2, r * G2gen); the partial decryptions are
\* taken of origMu and the final subtraction is from origOmega, not from the
\* values the single-party adjudication left in omega and mu.
C10_CopiesUntouched ==
  (variant = "later" /\ blsReady /\
   pc \in {"verify", "adjudicate", "params", "split", "partial", "interp", "final", "return"}) =>
    /\ t.origMu = ScalarMultiplication(G2Gen, t.r)
    /\ t.origOmega = G2Add(t.sigma, ScalarMultiplication(t.adjPKeyG2, t.r))
    /\ pc = "interp" =>
         /\ t.mub = t.origMu
         /\ \A k \in 1 .. Len(t.res) : t.res[k] = G2Mul(t.origMu, t.shares[t.quorum[k]])
    /\ pc = "return" => t.omegab = BlsG2Sub(t.origOmega, t.mub)

C10_Witness ==
  /\ pc = "return"
  /\ variant = "later"
  /\ blsReady
  /\ t.mu # t.origMu
  /\ t.omega # t.origOmega
  /\ t.omegab = t.sigma
====
